---- MODULE Spec2Model ----
(***************************************************************************)
(* Model of lpsolve__5_5__ratios__fractional_01_programming__example.py:  *)
(* a straight-line script that builds two PuLP models (the Charnes-Cooper *)
(* transformation of a linear-fractional program, continuous and 0/1),    *)
(* solves each and prints ratios of the solved values.                    *)
(*                                                                         *)
(* Numbers are exact rationals.  A coefficient or right-hand side is an    *)
(* integer count of 1/Scale; a solved value is a pair <<num, den>> in      *)
(* lowest terms, and <<0, 0>> is Python's None.  The solver is external:   *)
(* solve() is a nondeterministic choice among the outcomes a solver can    *)
(* report, where "Optimal" comes with a feasible point that no feasible    *)
(* point of the candidate grid beats.                                      *)
(***************************************************************************)
EXTENDS Integers, Sequences, FiniteSets, TLC

VARIABLES pc, model, lpvars, out, ret, solves, fault, run, prev

vars == <<pc, model, lpvars, out, ret, solves, fault, run, prev>>

----------------------------------------------------------------------------
(* Bounds of the candidate grid and of the number of runs.                 *)

\* x1 = a/g and x2 = b/g are taken for every g in 1..MaxG
MaxG == 3
\* largest x1 of the grid (the original constraints allow x1 <= 4)
MaxX1 == 4
\* largest x2 of the grid (the original constraints allow x2 <= 5)
MaxX2 == 5
\* the script is run this many times in a row
MaxRuns == 2

----------------------------------------------------------------------------
(* Arithmetic on exact rationals.                                          *)

\* unit of the decimal literals of the script: 0.127 is 127 / Scale
Scale == 1000

Names == {"y0", "y1", "y2", "z1", "z2"}

Abs(n) == IF n < 0 THEN -n ELSE n

RECURSIVE GCD(_, _)
GCD(a, b) == IF b = 0 THEN a ELSE GCD(b, a % b)

\* None, as the varValue of a variable no solver has assigned
None == <<0, 0>>

IsNone(v) == v[2] = 0

\* n/d in lowest terms with a positive denominator (d # 0)
Frac(n, d) ==
    LET k == GCD(Abs(n), Abs(d))
        s == IF d < 0 THEN -1 ELSE 1
    IN  <<(s * n) \div k, (s * d) \div k>>

\* Python's a / b on two numbers
Div(a, b) == Frac(a[1] * b[2], a[2] * b[1])

FracLE(a, b) == a[1] * b[2] <= b[1] * a[2]

----------------------------------------------------------------------------
(* PuLP's algebra: affine expressions and constraints over the variables.  *)

\* c * v, the variable named v weighted by c / Scale
Term(c, v) == [coef |-> [n \in Names |-> IF n = v THEN c ELSE 0], const |-> 0]

\* a literal number c / Scale
Const(c) == [coef |-> [n \in Names |-> 0], const |-> c]

Plus(e, f) == [coef |-> [n \in Names |-> e.coef[n] + f.coef[n]], const |-> e.const + f.const]

Minus(e, f) == [coef |-> [n \in Names |-> e.coef[n] - f.coef[n]], const |-> e.const - f.const]

Sum3(e, f, h) == Plus(Plus(e, f), h)

\* lhs <= rhs, lhs >= rhs, lhs == rhs: the variables are moved to the left and
\* the constants to the right
Compare(lhs, sense, rhs) ==
    [coef |-> Minus(lhs, rhs).coef, sense |-> sense, rhs |-> rhs.const - lhs.const]

\* Le with the comparison turned round
Le_Flipped(lhs, rhs) == Compare(lhs, ">=", rhs)

Le(lhs, rhs) == Compare(lhs, "<=", rhs)

Ge(lhs, rhs) == Compare(lhs, ">=", rhs)

Eq(lhs, rhs) == Compare(lhs, "==", rhs)

----------------------------------------------------------------------------
(* The statements of the script, by source line.                           *)

\* Objective48 with the expression of line 50 in its place
Objective48_Row50 == Sum3(Term(-6000, "y0"), Term(1500, "y1"), Term(1000, "y2"))

\* Part 1: model += 1.8 * y1 + 1.7 * y2
Objective48 == Plus(Term(1800, "y1"), Term(1700, "y2"))

\* Constraint50 with 1.5 typed as 5.1
Constraint50_Typo == Le(Sum3(Term(-6000, "y0"), Term(5100, "y1"), Term(1000, "y2")), Const(0))

\* model +=  -6 * y0 + 1.5 * y1 + y2 <= 0
Constraint50 == Le(Sum3(Term(-6000, "y0"), Term(1500, "y1"), Term(1000, "y2")), Const(0))

\* Constraint51 with the coefficients of y1 and y2 exchanged
Constraint51_Swapped == Le(Sum3(Term(-20000, "y0"), Term(4000, "y1"), Term(3000, "y2")), Const(0))

\* model += -20 * y0 + 3.0 * y1 + 4 * y2 <= 0
Constraint51 == Le(Sum3(Term(-20000, "y0"), Term(3000, "y1"), Term(4000, "y2")), Const(0))

\* model +=  10 * y0 + 4.0 * y1 + 4.1 * y2 == 1
Constraint52 == Eq(Sum3(Term(10000, "y0"), Term(4000, "y1"), Term(4100, "y2")), Const(1000))

\* Objective92 with 1.8 typed as 18
Objective92_Typo == Plus(Term(18000, "y1"), Term(1700, "y2"))

\* Part 2: model += 1.8 * y1 + 1.7 * y2
Objective92 == Plus(Term(1800, "y1"), Term(1700, "y2"))

\* model +=  10 * y0 + 4.0 * y1 + 4.1 * y2 == 1
Constraint95 == Eq(Sum3(Term(10000, "y0"), Term(4000, "y1"), Term(4100, "y2")), Const(1000))

\* model +=  -6 * y0 + 1.5 * y1 + y2 <= 0
Constraint98 == Le(Sum3(Term(-6000, "y0"), Term(1500, "y1"), Term(1000, "y2")), Const(0))

\* model += -20 * y0 + 3.0 * y1 + 4 * y2 <= 0
Constraint99 == Le(Sum3(Term(-20000, "y0"), Term(3000, "y1"), Term(4000, "y2")), Const(0))

\* Constraint104 with 0.127 typed as 0.027
Constraint104_Typo == Le(Term(1000, "y1"), Term(27, "z1"))

\* model +=  y1 <= 0.127 * z1
Constraint104 == Le(Term(1000, "y1"), Term(127, "z1"))

\* model +=  y1 - y0 - 0.032 * z1 >= -0.032
Constraint105 == Ge(Sum3(Term(1000, "y1"), Term(-1000, "y0"), Term(-32, "z1")), Const(-32))

\* model +=  y1 - y0 + 0.032 * z1 <= 0.032
Constraint106 == Le(Sum3(Term(1000, "y1"), Term(-1000, "y0"), Term(32, "z1")), Const(32))

\* model +=  y2 <= 0.127 * z2
Constraint108 == Le(Term(1000, "y2"), Term(127, "z2"))

\* model +=  y2 - y0 - 0.032 * z2 >= -0.032
Constraint109 == Ge(Sum3(Term(1000, "y2"), Term(-1000, "y0"), Term(-32, "z2")), Const(-32))

\* model +=  y2 - y0 + 0.032 * z2 <= 0.032
Constraint110 == Le(Sum3(Term(1000, "y2"), Term(-1000, "y0"), Term(32, "z2")), Const(32))

\* pulp.LpVariable(name, lowBound=0, cat='Continuous'): no upper bound, no value yet
ContinuousVar == [cat |-> "Continuous", lowBound |-> 0, hasUp |-> FALSE, upBound |-> 0, varValue |-> None]

\* BinaryVar declared continuous between 0 and 1
BinaryVar_Relaxed == [cat |-> "Continuous", lowBound |-> 0, hasUp |-> TRUE, upBound |-> 1, varValue |-> None]

\* pulp.LpVariable(name, cat='Binary'): an integer variable between 0 and 1
BinaryVar == [cat |-> "Integer", lowBound |-> 0, hasUp |-> TRUE, upBound |-> 1, varValue |-> None]

\* a name the script has not bound yet
Unbound == [cat |-> "Unbound", lowBound |-> 0, hasUp |-> FALSE, upBound |-> 0, varValue |-> None]

\* the statements in the order the interpreter runs them
Script ==
    << [op |-> "LpProblem",  line |-> 42,  sense |-> "max"],
       [op |-> "LpVariable", line |-> 44,  name |-> "y0", var |-> ContinuousVar],
       [op |-> "LpVariable", line |-> 45,  name |-> "y1", var |-> ContinuousVar],
       [op |-> "LpVariable", line |-> 46,  name |-> "y2", var |-> ContinuousVar],
       [op |-> "objective",  line |-> 48,  expr |-> Objective48],
       [op |-> "constraint", line |-> 50,  con |-> Constraint50],
       [op |-> "constraint", line |-> 51,  con |-> Constraint51],
       [op |-> "constraint", line |-> 52,  con |-> Constraint52],
       [op |-> "solve",      line |-> 54],
       [op |-> "LpStatus",   line |-> 55],
       [op |-> "ratio",      line |-> 57,  label |-> "x1 value", num |-> "y1", den |-> "y0"],
       [op |-> "ratio",      line |-> 58,  label |-> "x2 value", num |-> "y2", den |-> "y0"],
       [op |-> "value",      line |-> 59,  label |-> "maximum value"],
       [op |-> "time",       line |-> 60,  label |-> "solution time"],
       [op |-> "LpProblem",  line |-> 80,  sense |-> "max"],
       [op |-> "LpVariable", line |-> 82,  name |-> "y0", var |-> ContinuousVar],
       [op |-> "LpVariable", line |-> 83,  name |-> "y1", var |-> ContinuousVar],
       [op |-> "LpVariable", line |-> 84,  name |-> "y2", var |-> ContinuousVar],
       [op |-> "LpVariable", line |-> 89,  name |-> "z1", var |-> BinaryVar],
       [op |-> "LpVariable", line |-> 90,  name |-> "z2", var |-> BinaryVar],
       [op |-> "objective",  line |-> 92,  expr |-> Objective92],
       [op |-> "constraint", line |-> 95,  con |-> Constraint95],
       [op |-> "constraint", line |-> 98,  con |-> Constraint98],
       [op |-> "constraint", line |-> 99,  con |-> Constraint99],
       [op |-> "constraint", line |-> 104, con |-> Constraint104],
       [op |-> "constraint", line |-> 105, con |-> Constraint105],
       [op |-> "constraint", line |-> 106, con |-> Constraint106],
       [op |-> "constraint", line |-> 108, con |-> Constraint108],
       [op |-> "constraint", line |-> 109, con |-> Constraint109],
       [op |-> "constraint", line |-> 110, con |-> Constraint110],
       [op |-> "solve",      line |-> 112],
       [op |-> "LpStatus",   line |-> 113],
       [op |-> "ratio",      line |-> 115, label |-> "x1 value", num |-> "y1", den |-> "y0"],
       [op |-> "ratio",      line |-> 116, label |-> "x2 value", num |-> "y2", den |-> "y0"],
       [op |-> "value",      line |-> 117, label |-> "maximum value"],
       [op |-> "time",       line |-> 118, label |-> "solution time"] >>

\* pc past the last statement: the script has run to its end
Done == Len(Script) + 1

\* the part (1 or 2) statement i belongs to: the number of models built so far
PartOf(i) == Cardinality({j \in 1..i : j <= Len(Script) /\ Script[j].op = "LpProblem"})

\* the position of the statement on source line l
At(l) == CHOOSE i \in 1..Len(Script) : Script[i].line = l

----------------------------------------------------------------------------
(* The solver.  A point gives every variable the value n[v] / den.         *)

\* the point with y_i = n_i / d and z_i = h_i / 2, in lowest terms
Point(n0, n1, n2, d, h1, h2) ==
    LET k == GCD(GCD(GCD(Abs(2 * n0), Abs(2 * n1)), GCD(Abs(2 * n2), 2 * d)), GCD(h1 * d, h2 * d))
    IN  [n   |-> [v \in Names |-> CASE v = "y0" -> (2 * n0) \div k
                                    [] v = "y1" -> (2 * n1) \div k
                                    [] v = "y2" -> (2 * n2) \div k
                                    [] v = "z1" -> (h1 * d) \div k
                                    [] v = "z2" -> (h2 * d) \div k],
         den |-> (2 * d) \div k]

\* The linear-fractional problem the script's comments state: maximise
\* (num0 + num1 x1 + num2 x2) / (den0 + den1 x1 + den2 x2) subject to
\* rows[i].a1 x1 + rows[i].a2 x2 <= rows[i].b
Problem ==
    [num0 |-> 0, num1 |-> 1800, num2 |-> 1700,
     den0 |-> 10000, den1 |-> 4000, den2 |-> 4100,
     rows |-> << [a1 |-> 1500, a2 |-> 1000, b |-> 6000],
                 [a1 |-> 3000, a2 |-> 4000, b |-> 20000] >>]

\* The grid of (y0, y1, y2): for x1 = a/g, x2 = b/g the point with
\* y0 = t / (den0 + den1 x1 + den2 x2), y1 = x1 * y0, y2 = x2 * y0 (t = 1), the
\* direction with y0 = 0 (t = 0), and both with y0 moved off it (e = 1); x runs over a
\* box that contains the region the rows allow, and negative values.
RayGrid ==
    { <<Scale * (q[1] * q[4] + q[5]), Scale * q[2], Scale * q[3],
        Problem.den0 * q[1] * q[4] + Problem.den1 * q[2] + Problem.den2 * q[3]>> :
        q \in { r \in (1..MaxG) \X (-1..(MaxX1 * MaxG)) \X (-1..(MaxX2 * MaxG)) \X (0..1) \X (0..1) :
                  /\ r[2] <= MaxX1 * r[1]
                  /\ r[3] <= MaxX2 * r[1]
                  /\ Problem.den0 * r[1] * r[4] + Problem.den1 * r[2] + Problem.den2 * r[3] > 0 } }

\* largest numerator of the box of small values
MaxBox == 4
\* denominator of the box of small values: hundredths
BoxDen == 100

\* a box of small values around the origin
BoxGrid == { <<q[1], q[2], q[3], BoxDen>> : q \in (-1..MaxBox) \X (-1..MaxBox) \X (-1..MaxBox) }

YGrid == RayGrid \cup BoxGrid

\* the values tried for a 0/1 variable, in halves: 0, 1/2, 1
ZGrid == 0..2

\* the points over the (y0, y1, y2) grid, by the 0/1 variables Z in the model
GridPoints ==
    [Z \in SUBSET {"z1", "z2"} |->
        { Point(q[1][1], q[1][2], q[1][3], q[1][4], q[2][1], q[2][2]) :
            q \in YGrid \X ((IF "z1" \in Z THEN ZGrid ELSE {0}) \X (IF "z2" \in Z THEN ZGrid ELSE {0})) }]

\* the points a solve of a model over the variables V chooses among
Candidates(V) == GridPoints[V \cap {"z1", "z2"}]

\* sum over the variables of coef[v] * n[v]
Dot(coef, n) ==
    coef["y0"] * n["y0"] + coef["y1"] * n["y1"] + coef["y2"] * n["y2"]
        + coef["z1"] * n["z1"] + coef["z2"] * n["z2"]

\* the point p satisfies the constraint c
Satisfies(c, p) ==
    CASE c.sense = "<=" -> Dot(c.coef, p.n) <= c.rhs * p.den
      [] c.sense = ">=" -> Dot(c.coef, p.n) >= c.rhs * p.den
      [] c.sense = "==" -> Dot(c.coef, p.n) = c.rhs * p.den

\* the value p gives the variable named v respects the declaration var
InBounds(var, p, v) ==
    /\ p.n[v] >= var.lowBound * p.den
    /\ var.hasUp => p.n[v] <= var.upBound * p.den
    /\ var.cat = "Integer" => p.n[v] % p.den = 0

\* the variables of a model: those its objective or a constraint mentions
ModelVars(m) ==
    { v \in Names : \/ m.objective.coef[v] # 0
                    \/ \E i \in 1..Len(m.constraints) : m.constraints[i].coef[v] # 0 }

\* p respects the declarations of the variables V and every constraint of m
Feasible(m, vs, V, p) ==
    /\ \A i \in 1..Len(m.constraints) : Satisfies(m.constraints[i], p)
    /\ \A v \in V : InBounds(vs[v], p, v)

\* the objective of m at p
ObjAt(m, p) == Frac(Dot(m.objective.coef, p.n) + m.objective.const * p.den, Scale * p.den)

\* p is at least as good as q for the sense of m
AsGood(m, p, q) ==
    IF m.sense = "max" THEN FracLE(ObjAt(m, q), ObjAt(m, p)) ELSE FracLE(ObjAt(m, p), ObjAt(m, q))

FeasibleSet(m, vs) ==
    LET V == ModelVars(m)
    IN  { p \in Candidates(V) : Feasible(m, vs, V, p) }

OptimalPoints(m, vs) ==
    LET F == FeasibleSet(m, vs)
    IN  { p \in F : \A q \in F : AsGood(m, p, q) }

\* the varValue of each variable at p; a variable outside the model keeps None
Values(m, p) ==
    LET V == ModelVars(m)
    IN  [v \in Names |-> IF v \in V THEN Frac(p.n[v], p.den) ELSE None]

\* PuLP's status codes: LpStatusOptimal and the four others LpStatus names
LpStatusOptimal == 1
LpStatusNotSolved == 0
NotOptimal == {0, -1, -2, -3}

\* what the variables hold when the solver reports no optimum: nothing, or
\* whatever it stopped at
Leftover(m) ==
    LET V == ModelVars(m)
    IN  { [v \in Names |-> IF v \in V THEN x ELSE None] : x \in {None, <<0, 1>>, <<1, 1>>} }

\* every (status, values) a call of solve() can come back with
SolverOutcomes(m, vs) ==
    { [status |-> LpStatusOptimal, val |-> Values(m, p)] : p \in OptimalPoints(m, vs) }
        \cup { [status |-> q[1], val |-> q[2]] : q \in NotOptimal \X Leftover(m) }

----------------------------------------------------------------------------
(* State.                                                                  *)

\* LpProblem that hands back the model already built instead of a new one
LpProblem_Reused(sense) == [model EXCEPT !.sense = sense]

\* pulp.LpProblem(name, sense): no objective, no constraints, not solved
LpProblem(sense) ==
    [sense |-> sense, objective |-> Const(0), constraints |-> <<>>, status |-> LpStatusNotSolved]

\* before line 42 the name `model` is bound to nothing
NoModel == [sense |-> "unbound", objective |-> Const(0), constraints |-> <<>>, status |-> LpStatusNotSolved]

\* a part whose solve() has not returned; ret[k] records, for part k, what
\* solve() was called on and what it returned
NoRet ==
    [done |-> FALSE, optimal |-> FALSE, val |-> [v \in Names |-> None],
     model |-> NoModel, vars |-> [v \in Names |-> Unbound]]

Init ==
    /\ pc = 1
    /\ model = NoModel
    /\ lpvars = [v \in Names |-> Unbound]
    /\ out = <<>>
    /\ ret = [k \in 1..2 |-> NoRet]
    /\ solves = 0
    /\ fault = 0
    /\ run = 1
    /\ prev = [k \in 1..2 |-> NoRet]

Running == fault = 0 /\ pc <= Len(Script)

\* the interpreter is at a statement of kind op
AtOp(op) == Running /\ Script[pc].op = op

----------------------------------------------------------------------------
(* The statements, one action per kind.                                    *)

\* model = pulp.LpProblem(..., pulp.LpMaximize)
NewProblem ==
    /\ AtOp("LpProblem")
    /\ model' = LpProblem(Script[pc].sense)
    /\ pc' = pc + 1
    /\ UNCHANGED <<lpvars, out, ret, solves, fault, run, prev>>

\* y0 = pulp.LpVariable('y0', ...): the name is bound to a new variable
NewVariable ==
    /\ AtOp("LpVariable")
    /\ lpvars' = [lpvars EXCEPT ![Script[pc].name] = Script[pc].var]
    /\ pc' = pc + 1
    /\ UNCHANGED <<model, out, ret, solves, fault, run, prev>>

\* model += <affine expression>
SetObjective ==
    /\ AtOp("objective")
    /\ model' = [model EXCEPT !.objective = Script[pc].expr]
    /\ pc' = pc + 1
    /\ UNCHANGED <<lpvars, out, ret, solves, fault, run, prev>>

\* model += <constraint>
AddConstraint ==
    /\ AtOp("constraint")
    /\ model' = [model EXCEPT !.constraints = Append(@, Script[pc].con)]
    /\ pc' = pc + 1
    /\ UNCHANGED <<lpvars, out, ret, solves, fault, run, prev>>

\* model.solve(): the status and the variables' values are the solver's
Solve ==
    /\ AtOp("solve")
    /\ \E o \in SolverOutcomes(model, lpvars) :
        /\ model' = [model EXCEPT !.status = o.status]
        /\ lpvars' = [v \in Names |-> IF v \in ModelVars(model)
                                       THEN [lpvars[v] EXCEPT !.varValue = o.val[v]]
                                       ELSE lpvars[v]]
        /\ ret' = [ret EXCEPT ![PartOf(pc)] = [done |-> TRUE, optimal |-> (o.status = LpStatusOptimal), val |-> o.val,
                                           model |-> model, vars |-> lpvars]]
    /\ solves' = solves + 1
    /\ pc' = pc + 1
    /\ UNCHANGED <<out, fault, run, prev>>

\* model.solve() raises: no solver can be run
SolveRaises ==
    /\ AtOp("solve")
    /\ solves' = solves + 1
    /\ fault' = Script[pc].line
    /\ UNCHANGED <<pc, model, lpvars, out, ret, run, prev>>

\* pulp.LpStatus[model.status]: the name of the status is looked up and dropped
LookupStatus ==
    /\ AtOp("LpStatus")
    /\ model.status \in NotOptimal \cup {LpStatusOptimal}
    /\ pc' = pc + 1
    /\ UNCHANGED <<model, lpvars, out, ret, solves, fault, run, prev>>

\* PrintRatio that prints nothing for values it cannot divide and goes on
PrintRatio_Guarded ==
    /\ AtOp("ratio")
    /\ LET a == lpvars[Script[pc].num].varValue
           b == lpvars[Script[pc].den].varValue
       IN  IF IsNone(a) \/ IsNone(b) \/ b[1] = 0
           THEN out' = out
           ELSE out' = Append(out, [line |-> Script[pc].line, label |-> Script[pc].label, val |-> Div(a, b)])
    /\ pc' = pc + 1
    /\ UNCHANGED <<model, lpvars, ret, solves, fault, run, prev>>

\* print(f'x1 value: {y1.varValue / y0.varValue}'): None / x and x / 0 raise
PrintRatio ==
    /\ AtOp("ratio")
    /\ LET a == lpvars[Script[pc].num].varValue
           b == lpvars[Script[pc].den].varValue
       IN  IF IsNone(a) \/ IsNone(b) \/ b[1] = 0
           THEN /\ fault' = Script[pc].line
                /\ UNCHANGED <<pc, out>>
           ELSE /\ out' = Append(out, [line |-> Script[pc].line, label |-> Script[pc].label, val |-> Div(a, b)])
                /\ pc' = pc + 1
                /\ UNCHANGED fault
    /\ UNCHANGED <<model, lpvars, ret, solves, run, prev>>

FracAdd(a, b) == Frac(a[1] * b[2] + b[1] * a[2], a[2] * b[2])

\* pulp.value(e): the expression at the variables' values, None if one has none
ValueOf(e, vs) ==
    LET term(v) == IF e.coef[v] = 0 THEN <<0, 1>>
                   ELSE Frac(e.coef[v] * vs[v].varValue[1], Scale * vs[v].varValue[2])
    IN  IF \E v \in Names : e.coef[v] # 0 /\ IsNone(vs[v].varValue)
        THEN None
        ELSE FracAdd(FracAdd(FracAdd(term("y0"), term("y1")), FracAdd(term("y2"), term("z1"))),
                     FracAdd(term("z2"), Frac(e.const, Scale)))

\* print(f'maximum value: {pulp.value(model.objective)}')
PrintObjective ==
    /\ AtOp("value")
    /\ out' = Append(out, [line |-> Script[pc].line, label |-> Script[pc].label,
                           val |-> ValueOf(model.objective, lpvars)])
    /\ pc' = pc + 1
    /\ UNCHANGED <<model, lpvars, ret, solves, fault, run, prev>>

\* print(f'solution time: {model.solutionTime}'): the line is printed; the
\* reading of the clock is not modelled
PrintTime ==
    /\ AtOp("time")
    /\ out' = Append(out, [line |-> Script[pc].line, label |-> Script[pc].label, val |-> None])
    /\ pc' = pc + 1
    /\ UNCHANGED <<model, lpvars, ret, solves, fault, run, prev>>

\* the optimal returns of a run, kept to compare the next run with
Kept(r) == [k \in 1..2 |-> IF r[k].done /\ r[k].optimal THEN r[k] ELSE NoRet]

\* the script is run again, in a new interpreter, once it has ended or died
Rerun ==
    /\ pc = Done \/ fault # 0
    /\ run < MaxRuns
    /\ run' = run + 1
    /\ prev' = Kept(ret)
    /\ pc' = 1
    /\ model' = NoModel
    /\ lpvars' = [v \in Names |-> Unbound]
    /\ out' = <<>>
    /\ ret' = [k \in 1..2 |-> NoRet]
    /\ solves' = 0
    /\ fault' = 0

Next ==
    \/ NewProblem
    \/ NewVariable
    \/ SetObjective
    \/ AddConstraint
    \/ Solve
    \/ SolveRaises
    \/ LookupStatus
    \/ PrintRatio
    \/ PrintObjective
    \/ PrintTime
    \/ Rerun

Spec == Init /\ [][Next]_vars

----------------------------------------------------------------------------
(* Vocabulary of the properties.                                           *)

\* the first ratio statement of part k
FirstRatio(k) == CHOOSE i \in 1..Len(Script) :
    /\ Script[i].op = "ratio" /\ PartOf(i) = k
    /\ \A j \in 1..(i - 1) : ~(Script[j].op = "ratio" /\ PartOf(j) = k)

\* the solve statement of part k
SolveAt(k) == CHOOSE i \in 1..Len(Script) : Script[i].op = "solve" /\ PartOf(i) = k

\* the lines part k has printed
Printed(k) == { i \in 1..Len(out) : PartOf(At(out[i].line)) = k }

\* the printed values of part k are x1, x2 and the maximum, where printed
PrintedAre(k, x1, x2, mx) ==
    \A i \in Printed(k) :
        /\ out[i].label = "x1 value" => out[i].val = x1
        /\ out[i].label = "x2 value" => out[i].val = x2
        /\ out[i].label = "maximum value" => out[i].val = mx

\* the objective of the model solved in part k at the values it returned
SolvedObjective(k) ==
    ValueOf(ret[k].model.objective, [v \in Names |-> [varValue |-> ret[k].val[v]]])

\* the values part k's solve returned give x1, x2 and the maximum
SolvedAre(k, x1, x2, mx) ==
    /\ ret[k].val["y0"][1] > 0
    /\ Div(ret[k].val["y1"], ret[k].val["y0"]) = x1
    /\ Div(ret[k].val["y2"], ret[k].val["y0"]) = x2
    /\ SolvedObjective(k) = mx

\* at the solve of part k: no feasible point beats mx and one attains it
BestIs(k, mx) ==
    pc = SolveAt(k) /\ fault = 0 =>
        LET F == FeasibleSet(model, lpvars)
        IN  /\ \A p \in F : FracLE(ObjAt(model, p), mx)
            /\ \E p \in F : ObjAt(model, p) = mx

\* C1: when Part 1's solve returns an optimum, x1 = y1/y0 = 4/3, x2 = y2/y0 = 4
\* and the objective is 69/238, which is what is printed; no feasible point of
\* the Part 1 model has a larger objective.
C1_Part1Optimum ==
    /\ BestIs(1, <<69, 238>>)
    /\ ret[1].done /\ ret[1].optimal =>
        /\ SolvedAre(1, <<4, 3>>, <<4, 1>>, <<69, 238>>)
        /\ PrintedAre(1, <<4, 3>>, <<4, 1>>, <<69, 238>>)

C1_Witness ==
    /\ ret[1].done /\ ret[1].optimal
    /\ Cardinality(Printed(1)) >= 3
    /\ Cardinality(FeasibleSet(ret[1].model, ret[1].vars)) > 1

\* C2: when Part 2's solve returns an optimum, x1 = y1/y0 = 1, x2 = y2/y0 = 1
\* and the objective is 35/181, which is what is printed; no feasible point of
\* the Part 2 model has a larger objective.
C2_Part2Optimum ==
    /\ BestIs(2, <<35, 181>>)
    /\ ret[2].done /\ ret[2].optimal =>
        /\ SolvedAre(2, <<1, 1>>, <<1, 1>>, <<35, 181>>)
        /\ PrintedAre(2, <<1, 1>>, <<1, 1>>, <<35, 181>>)

C2_Witness ==
    /\ ret[2].done /\ ret[2].optimal
    /\ Cardinality(Printed(2)) >= 3

\* the Charnes-Cooper image of x = (x1, x2) with z = x, for integers x1, x2:
\* y0 = 1 / (den0 + den1 x1 + den2 x2), y1 = x1 * y0, y2 = x2 * y0
BinaryPoint(x1, x2) ==
    Point(Scale, Scale * x1, Scale * x2,
          Problem.den0 + Problem.den1 * x1 + Problem.den2 * x2, 2 * x1, 2 * x2)

\* x1 = a1/b, x2 = a2/b (b > 0) satisfies the rows of the stated problem
RowsHold(a1, a2, b) ==
    \A i \in 1..Len(Problem.rows) :
        Problem.rows[i].a1 * a1 + Problem.rows[i].a2 * a2 <= Problem.rows[i].b * b

\* C3 (as claimed): every binary assignment that satisfies the two original
\* constraints maps to a point that satisfies every constraint of the Part 2
\* model.
C3_BinaryPointsFeasible ==
    pc = SolveAt(2) /\ fault = 0 =>
        \A x1 \in 0..1, x2 \in 0..1 :
            RowsHold(x1, x2, 1) =>
                BinaryPoint(x1, x2) \in FeasibleSet(model, lpvars)

\* the constraints of m that mention a 0/1 variable: the linking constraints
Linking(m) ==
    { i \in 1..Len(m.constraints) : m.constraints[i].coef["z1"] # 0 \/ m.constraints[i].coef["z2"] # 0 }

\* p respects the constraints L of m and the declarations of the variables V
Linked(m, vs, V, L, p) ==
    /\ \A i \in L : Satisfies(m.constraints[i], p)
    /\ \A v \in V : InBounds(vs[v], p, v)

\* z = 1 gives y = y0, z = 0 gives y = 0, and z is nothing else
ForcedBy(p, z, y) ==
    /\ p.n[z] \in {0, p.den}
    /\ p.n[z] = p.den => p.n[y] = p.n["y0"]
    /\ p.n[z] = 0 => p.n[y] = 0

\* C4: at every point that respects the declarations and the linking constraints
\* of the Part 2 model (every feasible solution is one), z_i = 1 implies
\* y_i = y0 and z_i = 0 implies y_i = 0; so in every feasible solution y0 > 0
\* and y1/y0 and y2/y0 are each 0 or 1.
C4_LinkingForcesBinary ==
    pc = SolveAt(2) /\ fault = 0 =>
        LET V == ModelVars(model)
            L == Linking(model)
        IN  \A p \in Candidates(V) :
            Linked(model, lpvars, V, L, p) =>
                /\ ForcedBy(p, "z1", "y1")
                /\ ForcedBy(p, "z2", "y2")
                /\ Feasible(model, lpvars, V, p) =>
                       /\ p.n["y0"] > 0
                       /\ p.n["y1"] \in {0, p.n["y0"]}
                       /\ p.n["y2"] \in {0, p.n["y0"]}

C4_Witness ==
    /\ pc = SolveAt(2) /\ fault = 0
    /\ Cardinality(Linking(model)) = 6
    /\ LET V == ModelVars(model)
           L == Linking(model)
       IN  /\ \E p \in Candidates(V) :
                  Linked(model, lpvars, V, L, p) /\ p.n["z1"] = 0 /\ p.n["z2"] = p.den /\ p.n["y0"] > 0
           /\ \E p \in Candidates(V) :
                  Feasible(model, lpvars, V, p) /\ p.n["z1"] = p.den
           /\ \E p \in Candidates(V) :
                  p.n["z1"] = p.den /\ p.n["y1"] # p.n["y0"] /\ \A v \in V : InBounds(lpvars[v], p, v)

\* the point p, with y0 > 0, lies where y0 = 1 / (den0 + den1 x1 + den2 x2) for
\* x = (y1/y0, y2/y0)
OnScale(p) ==
    Problem.den0 * p.n["y0"] + Problem.den1 * p.n["y1"] + Problem.den2 * p.n["y2"] = Scale * p.den

\* the ratio of the stated problem at x = (y1/y0, y2/y0), for y0 > 0
RatioAt(p) ==
    Frac(Problem.num0 * p.n["y0"] + Problem.num1 * p.n["y1"] + Problem.num2 * p.n["y2"],
         Problem.den0 * p.n["y0"] + Problem.den1 * p.n["y1"] + Problem.den2 * p.n["y2"])

\* x = (y1/y0, y2/y0) is a point of the stated continuous problem: x >= 0 and the rows hold
XFeasible(p) ==
    /\ p.n["y1"] >= 0
    /\ p.n["y2"] >= 0
    /\ RowsHold(p.n["y1"], p.n["y2"], p.n["y0"])

\* C5: a point with y0 > 0 is feasible for the Part 1 model iff x = (y1/y0,
\* y2/y0) >= 0 satisfies the two original constraints and y0 = 1 / (10 + 4.0 x1
\* + 4.1 x2); at such a point the objective equals the ratio at x.
C5_CharnesCooper ==
    pc = SolveAt(1) /\ fault = 0 =>
        LET V == ModelVars(model)
        IN  \A p \in Candidates(V) :
                p.n["y0"] > 0 =>
                    /\ Feasible(model, lpvars, V, p) <=> (XFeasible(p) /\ OnScale(p))
                    /\ Feasible(model, lpvars, V, p) => ObjAt(model, p) = RatioAt(p)

C5_Witness ==
    /\ pc = SolveAt(1) /\ fault = 0
    /\ LET V == ModelVars(model)
       IN  /\ \E p \in Candidates(V) :
                  p.n["y0"] > 0 /\ Feasible(model, lpvars, V, p) /\ ObjAt(model, p)[1] > 0
           /\ \E p \in Candidates(V) : p.n["y0"] > 0 /\ XFeasible(p) /\ ~OnScale(p)
           /\ \E p \in Candidates(V) : p.n["y0"] > 0 /\ ~XFeasible(p) /\ OnScale(p)

\* C6: in each part, a run whose solve returns an optimum returns the values
\* (y0, y1, y2, and z1, z2 in Part 2) the run before it returned with its
\* optimum; the ratios and the objective are functions of these values.
C6_SameOnRerun ==
    \A k \in 1..2 :
        ret[k].done /\ ret[k].optimal /\ prev[k].done /\ prev[k].optimal =>
            ret[k].val = prev[k].val

C6_Witness ==
    /\ run = 2
    /\ pc = Done
    /\ \A k \in 1..2 : ret[k].done /\ ret[k].optimal /\ prev[k].done /\ prev[k].optimal
    /\ Cardinality(FeasibleSet(ret[1].model, ret[1].vars)) > 1

\* the values v cannot be divided: y0 is 0 or a variable has no value
Undividable(v) == IsNone(v["y0"]) \/ IsNone(v["y1"]) \/ v["y0"][1] = 0

\* part k's solve has returned values that cannot be divided
Stuck(k) == ret[k].done /\ Undividable(ret[k].val)

\* a part whose solved values cannot be divided gets no further than its first
\* ratio and prints nothing; when it is Part 1, Part 2 is never begun
C7_StuckState ==
    \A k \in 1..2 :
        Stuck(k) =>
            /\ pc <= FirstRatio(k)
            /\ Printed(k) = {}
            /\ k = 1 => /\ solves = 1
                        /\ ~ret[2].done
                        /\ model = [ret[1].model EXCEPT !.status = model.status]
                        /\ out = <<>>

\* the status decides nothing, the first ratio of a stuck part faults, and a
\* fault ends the run
C7_Step ==
    /\ AtOp("LpStatus") => pc' = pc + 1 /\ fault' = 0
    /\ \A k \in 1..2 :
           Stuck(k) /\ fault = 0 /\ pc = FirstRatio(k) =>
               fault' = Script[pc].line /\ pc' = pc /\ out' = out
    /\ fault # 0 => run' = run + 1 /\ pc' = 1 /\ out' = <<>>

\* C7: the status is looked up and decides nothing: whatever it is, the first
\* ratio is attempted next; if the solved y0 is 0 or a variable has no value, that
\* ratio faults, none of the part's four lines is printed, and no later statement
\* runs (none of Part 2 when the fault is in Part 1): the run is over.
C7_NoErrorHandling == []C7_StuckState /\ [][C7_Step]_vars

C7_Witness ==
    /\ fault = Script[FirstRatio(1)].line
    /\ Stuck(1)
    /\ model.status # LpStatusOptimal
    /\ ret[1].val["y0"] = <<0, 1>>

\* the Part 2 model as the script's literals give it
Part2Literal ==
    [sense |-> "max", objective |-> Objective92,
     constraints |-> << Constraint95, Constraint98, Constraint99, Constraint104, Constraint105,
                        Constraint106, Constraint108, Constraint109, Constraint110 >>,
     status |-> LpStatusNotSolved]

\* the variables of Part 2 as declared, none with a value
Part2Vars == [v \in Names |-> IF v \in {"z1", "z2"} THEN BinaryVar ELSE ContinuousVar]

C9_DenominatorPositive ==
    /\ \A k \in 1..2 :
           pc = SolveAt(k) /\ fault = 0 =>
               \A p \in FeasibleSet(model, lpvars) : p.n["y0"] > 0
    /\ \A k \in 1..2 :
           ret[k].done /\ ret[k].optimal =>
               /\ ~Undividable(ret[k].val)
               /\ fault # 0 => PartOf(At(fault)) # k

C9_Witness ==
    /\ pc = SolveAt(1) /\ fault = 0
    /\ FeasibleSet(model, lpvars) # {}
    /\ \E p \in Candidates(ModelVars(model)) :
           /\ p.n["y0"] = 0
           /\ \A v \in {"y0", "y1", "y2"} : InBounds(lpvars[v], p, v)
           /\ \E i \in 1..Len(model.constraints) :
                  model.constraints[i].sense = "==" /\ Satisfies(model.constraints[i], p)

\* C10: every constraint and declaration of the Part 1 model is one of the
\* Part 2 model, so every feasible point of Part 2 is feasible for Part 1; the
\* objectives are the same; so an optimum of Part 2 never exceeds one of Part 1.
C10_Relaxation ==
    /\ pc = SolveAt(2) /\ fault = 0 =>
        /\ model.objective = ret[1].model.objective
        /\ model.sense = ret[1].model.sense
        /\ \A i \in 1..Len(ret[1].model.constraints) :
               \E j \in 1..Len(model.constraints) : model.constraints[j] = ret[1].model.constraints[i]
        /\ \A v \in ModelVars(ret[1].model) : lpvars[v] = ret[1].vars[v]
        /\ LET V == ModelVars(ret[1].model)
           IN  \A p \in FeasibleSet(model, lpvars) : Feasible(ret[1].model, ret[1].vars, V, p)
    /\ ret[1].done /\ ret[1].optimal /\ ret[2].done /\ ret[2].optimal =>
           FracLE(SolvedObjective(2), SolvedObjective(1))

C10_Witness ==
    /\ pc > SolveAt(2)
    /\ ret[1].optimal /\ ret[2].optimal
    /\ SolvedObjective(2) # SolvedObjective(1)
    /\ FeasibleSet(ret[2].model, ret[2].vars) # {}

====
